---------------------------- MODULE Spec2Model ----------------------------
(***************************************************************************)
(* A model of revanity's parallel vanity-address search:                   *)
(*   - VanityGenerator (src/revanity/generator.py): start / poll / stop /  *)
(*     run_blocking, the orchestrator's fields;                            *)
(*   - search_worker (src/revanity/worker.py): one process per worker;     *)
(*   - CompiledPattern.matches (src/revanity/matcher.py).                  *)
(*                                                                         *)
(* The multiprocessing primitives are modelled by what CPython does:       *)
(*   - Queue.put appends to a buffer local to the putting process; a       *)
(*     feeder thread of that process writes it to the pipe, and a process  *)
(*     that exits normally flushes its buffer first.  Queue.empty and      *)
(*     get_nowait of the reader look at the pipe only.                     *)
(*   - Value("Q", 0) is a ctypes value behind a lock: counter.value takes  *)
(*     that lock for the read and for the write, and "with                 *)
(*     counter.get_lock()" holds it around both.  The lock of a process    *)
(*     that is killed while holding it is never released.                  *)
(*   - Process.terminate kills the process where it stands (its buffer is  *)
(*     lost); Process.join(timeout) returns when the process has exited    *)
(*     or when the timeout expires, whichever comes first.                 *)
(* A 32-character digest is scaled to HexLen characters over HexDigits and *)
(* a batch of 500 candidates to BatchSize.  The 64-bit width of the        *)
(* counter is not modelled: no run of the model comes near 2^64.           *)
(***************************************************************************)
EXTENDS Integers, Sequences, FiniteSets, TLC

\* ------------------------------------------------------------------ bounds
BatchSize == 2       \* batch_size of search_worker, scaled down from 500
MaxAttempts == 2     \* candidates generated in one run before the flag is set
MaxRuns == 2         \* successful start() calls in one behaviour
HexLen == 2          \* length of a rendered digest, scaled down from 32
MaxStrLen == 3       \* length of the short strings given to the validator
MaxEstLen == 33      \* length of the patterns given to the estimator

\* ------------------------------------------------------------- pure parts
HexDigits == {"0", "a"}

\* All sequences over S of length n.
RECURSIVE SeqsOfLen(_, _)
SeqsOfLen(S, n) ==
    IF n = 0 THEN {<<>>}
    ELSE {Append(s, c) : s \in SeqsOfLen(S, n - 1), c \in S}

\* The values dest_hash.hex() can take: HexLen lowercase hex characters.
DestHexSpace == SeqsOfLen(HexDigits, HexLen)

\* n copies of c
Rep(c, n) == [k \in 1..n |-> c]

\* The configurations of the search: a validated pattern and its mode.
Configs ==
    { [mode |-> "prefix", pattern |-> Rep("a", HexLen - 1)],
      [mode |-> "suffix", pattern |-> Rep("0", HexLen - 1)],
      [mode |-> "contains", pattern |-> <<"0">> \o Rep("a", HexLen - 1)] }

\* str.startswith
StartsWith(s, p) == Len(p) <= Len(s) /\ SubSeq(s, 1, Len(p)) = p

\* str.endswith
EndsWith(s, p) == Len(p) <= Len(s) /\ SubSeq(s, Len(s) - Len(p) + 1, Len(s)) = p

\* p in s
Contains(s, p) ==
    \E k \in 0..(Len(s) - Len(p)) : SubSeq(s, k + 1, k + Len(p)) = p

\* A matcher that looks for the pattern anywhere, whatever the mode.
MatchesAnywhere(pat, hex_addr) == Contains(hex_addr, pat.pattern)

\* self._regex.search(hex_addr) for a regex made of plain characters and
\* balanced groups, which finds the characters in their order
RegexSearch(regex, hex_addr) ==
    Contains(hex_addr, SelectSeq(regex, LAMBDA c : c \notin {"(", ")"}))

\* CompiledPattern.matches
Matches(pat, hex_addr) ==
    IF pat.mode = "prefix" THEN StartsWith(hex_addr, pat.pattern)
    ELSE IF pat.mode = "suffix" THEN EndsWith(hex_addr, pat.pattern)
    ELSE IF pat.mode = "contains" THEN Contains(hex_addr, pat.pattern)
    ELSE IF pat.mode = "regex" THEN RegexSearch(pat.pattern, hex_addr)
    ELSE FALSE

\* ------------------------------------------------------------------- core
\* NAME_HASH_LENGTH and TRUNCATED_HASHLENGTH, in bits
NAME_HASH_LENGTH == 80
TRUNCATED_HASHLENGTH == 128

\* Keys and digests are not computed here.  A byte string is a sequence of
\* pieces, each a term that says what it is the bytes of and how many of its
\* first bytes are meant: two byte strings built the same way from the same
\* keys are the same sequence.
X25519PrivateKey(k) == [kind |-> "x25519", of |-> k, len |-> 32]
Ed25519PrivateKey(k) == [kind |-> "ed25519", of |-> k, len |-> 32]

\* prv.public_key().public_bytes(Raw, Raw)
PublicBytes(prv) == <<[kind |-> "public_bytes", of |-> prv, len |-> 32]>>

\* prv.private_bytes(Raw, Raw, NoEncryption())
PrivateBytes(prv) == <<[kind |-> "private_bytes", of |-> prv, len |-> 32]>>

\* str.encode("utf-8") of a name given as its words and dots, one byte for
\* every character (the names are ASCII)
RECURSIVE NameLen(_)
NameLen(name) ==
    IF name = <<>> THEN 0
    ELSE (CASE Head(name) = "lxmf" -> 4 [] Head(name) = "delivery" -> 8
            [] Head(name) = "nomadnetwork" -> 12 [] Head(name) = "node" -> 4
            [] OTHER -> 1) + NameLen(Tail(name))

Utf8(name) == <<[kind |-> "utf8", of |-> name, len |-> NameLen(name)]>>

\* len(b)
RECURSIVE ByteLen(_)
ByteLen(b) == IF b = <<>> THEN 0 ELSE Head(b).len + ByteLen(Tail(b))

\* b[:n]
RECURSIVE Take(_, _)
Take(b, n) ==
    IF b = <<>> \/ n <= 0 THEN <<>>
    ELSE IF Head(b).len <= n THEN <<Head(b)>> \o Take(Tail(b), n - Head(b).len)
    ELSE <<[Head(b) EXCEPT !.len = n]>>

\* hashlib.sha256(b).digest(): 32 bytes that depend on every byte of b
Sha256(b) == <<[kind |-> "sha256", of |-> b, len |-> 32]>>

\* bytes.hex(): two characters for every byte
HexOf(b) == <<[kind |-> "hex", of |-> b, len |-> 2 * ByteLen(b)]>>

\* compute_name_hash
ComputeNameHash(dest_name) == Take(Sha256(Utf8(dest_name)), NAME_HASH_LENGTH \div 8)

\* identity_hash_from_pub
IdentityHashFromPub(x25519_pub, ed25519_pub) ==
    Take(Sha256(x25519_pub \o ed25519_pub), TRUNCATED_HASHLENGTH \div 8)

\* dest_hash_from_identity_hash
DestHashFromIdentityHash(name_hash, identity_hash) ==
    Take(Sha256(name_hash \o identity_hash), TRUNCATED_HASHLENGTH \div 8)

\* A generate_and_hash that hashes the identity hash before the name hash.
GenerateAndHashSwapped(name_hash, x_prv, e_prv) ==
    LET x_pub == PublicBytes(x_prv)
        e_pub == PublicBytes(e_prv)
        identity_hash == Take(Sha256(x_pub \o e_pub), 16)
        dest_hash == Take(Sha256(identity_hash \o name_hash), 16) IN
    [private_key |-> PrivateBytes(x_prv) \o PrivateBytes(e_prv),
     identity_hash |-> identity_hash, dest_hex |-> HexOf(dest_hash)]

\* generate_and_hash, for the two private keys it generated
GenerateAndHash(name_hash, x_prv, e_prv) ==
    LET x_pub == PublicBytes(x_prv)
        e_pub == PublicBytes(e_prv)
        identity_hash == Take(Sha256(x_pub \o e_pub), 16)
        dest_hash == Take(Sha256(name_hash \o identity_hash), 16) IN
    [private_key |-> PrivateBytes(x_prv) \o PrivateBytes(e_prv),
     identity_hash |-> identity_hash, dest_hex |-> HexOf(dest_hash)]

\* ---------------------------------------------------------------- SHA-256
\* hashlib.sha256 computed on bytes, for messages of one block (at most 55
\* bytes).  A 32-bit word is held as its two 16-bit halves.
Word(hi, lo) == [hi |-> hi, lo |-> lo]

\* Binary digit i of v, digit 0 the lowest.
Bit16(v, i) == (v \div (2 ^ i)) % 2

\* Binary digit j of the word w, j from 0 to 31.
WordBit(w, j) == IF j < 16 THEN Bit16(w.lo, j) ELSE Bit16(w.hi, j - 16)

\* The number whose binary digits are g[base] to g[base + 15].
Half(g, base) ==
    1 * g[base + 0] + 2 * g[base + 1] + 4 * g[base + 2] + 8 * g[base + 3] +
    16 * g[base + 4] + 32 * g[base + 5] + 64 * g[base + 6] + 128 * g[base + 7] +
    256 * g[base + 8] + 512 * g[base + 9] + 1024 * g[base + 10] + 2048 * g[base + 11] +
    4096 * g[base + 12] + 8192 * g[base + 13] + 16384 * g[base + 14] + 32768 * g[base + 15]

\* The word whose binary digits are g[0] to g[31].
WordOf(g) == [hi |-> Half(g, 16), lo |-> Half(g, 0)]

\* Digit j of w rotated, and of w shifted, right by n.
Rotr(w, n, j) == WordBit(w, (j + n) % 32)
Shr(w, n, j) == IF j + n < 32 THEN WordBit(w, j + n) ELSE 0

\* A first sigma function with a wrong rotation.
BigSigma0Wrong(w) ==
    WordOf([j \in 0..31 |-> (Rotr(w, 2, j) + Rotr(w, 12, j) + Rotr(w, 22, j)) % 2])

\* The functions of the SHA-256 compression (FIPS 180-4, 4.1.2)
BigSigma0(w) ==
    WordOf([j \in 0..31 |-> (Rotr(w, 2, j) + Rotr(w, 13, j) + Rotr(w, 22, j)) % 2])
BigSigma1(w) ==
    WordOf([j \in 0..31 |-> (Rotr(w, 6, j) + Rotr(w, 11, j) + Rotr(w, 25, j)) % 2])
SmallSigma0(w) ==
    WordOf([j \in 0..31 |-> (Rotr(w, 7, j) + Rotr(w, 18, j) + Shr(w, 3, j)) % 2])
SmallSigma1(w) ==
    WordOf([j \in 0..31 |-> (Rotr(w, 17, j) + Rotr(w, 19, j) + Shr(w, 10, j)) % 2])
Ch(x, y, z) ==
    WordOf([j \in 0..31 |-> IF WordBit(x, j) = 1 THEN WordBit(y, j) ELSE WordBit(z, j)])
Maj(x, y, z) ==
    WordOf([j \in 0..31 |->
               IF WordBit(x, j) + WordBit(y, j) + WordBit(z, j) >= 2 THEN 1 ELSE 0])

\* Addition modulo 2 ** 32
Add32(a, b) ==
    [hi |-> (a.hi + b.hi + (a.lo + b.lo) \div 65536) % 65536,
     lo |-> (a.lo + b.lo) % 65536]

\* The round constants and the initial hash value (FIPS 180-4, 4.2.2, 5.3.3)
RoundConstants ==
    <<Word(17034, 12184), Word(28983, 17553), Word(46528, 64463), Word(59829, 56229),
      Word(14678, 49755), Word(23025, 4593), Word(37439, 33444), Word(43804, 24277),
      Word(55303, 43672), Word(4739, 23297), Word(9265, 34238), Word(21772, 32195),
      Word(29374, 23924), Word(32990, 45566), Word(39900, 1703), Word(49563, 61812),
      Word(58523, 27073), Word(61374, 18310), Word(4033, 40390), Word(9228, 41420),
      Word(11753, 11375), Word(19060, 33962), Word(23728, 43484), Word(30457, 35034),
      Word(38974, 20818), Word(43057, 50797), Word(45059, 10184), Word(48985, 32711),
      Word(50912, 3059), Word(54695, 37191), Word(1738, 25425), Word(5161, 10599),
      Word(10167, 2693), Word(11803, 8504), Word(19756, 28156), Word(21304, 3347),
      Word(25866, 29524), Word(30314, 2747), Word(33218, 51502), Word(37490, 11397),
      Word(41663, 59553), Word(43034, 26187), Word(49739, 35696), Word(51052, 20899),
      Word(53650, 59417), Word(54937, 1572), Word(62478, 13701), Word(4202, 41072),
      Word(6564, 49430), Word(7735, 27656), Word(10056, 30540), Word(13488, 48309),
      Word(14620, 3251), Word(20184, 43594), Word(23452, 51791), Word(26670, 28659),
      Word(29839, 33518), Word(30885, 25455), Word(33992, 30740), Word(36039, 520),
      Word(37054, 65530), Word(42064, 27883), Word(48889, 41975), Word(50801, 30962)>>
InitialHash ==
    <<Word(27145, 58983), Word(47975, 44677), Word(15470, 62322), Word(42319, 62778),
      Word(20750, 21119), Word(39685, 26764), Word(8067, 55723), Word(23520, 52505)>>

\* The characters of a word of a destination name, and their ASCII codes.
Spell(word) ==
    CASE word = "lxmf" -> <<"l", "x", "m", "f">>
      [] word = "delivery" -> <<"d", "e", "l", "i", "v", "e", "r", "y">>
      [] word = "nomadnetwork" ->
             <<"n", "o", "m", "a", "d", "n", "e", "t", "w", "o", "r", "k">>
      [] word = "node" -> <<"n", "o", "d", "e">>
      [] OTHER -> <<word>>
AsciiCode(c) ==
    CASE c = "." -> 46 [] c = "a" -> 97 [] c = "d" -> 100 [] c = "e" -> 101 []
      c = "f" -> 102 [] c = "i" -> 105 [] c = "k" -> 107 [] c = "l" -> 108
      [] c = "m" -> 109 [] c = "n" -> 110 [] c = "o" -> 111 [] c = "r" ->
      114 [] c = "t" -> 116 [] c = "v" -> 118 [] c = "w" -> 119 [] c = "x"
      -> 120 [] c = "y" -> 121

\* dest_name.encode("utf-8"), as numbers
RECURSIVE NameBytes(_)
NameBytes(name) ==
    IF name = <<>> THEN <<>>
    ELSE [k \in 1..Len(Spell(Head(name))) |-> AsciiCode(Spell(Head(name))[k])]
             \o NameBytes(Tail(name))

\* The padded block of a message of at most 55 bytes: the message, the byte
\* 0x80, zeros, and the length in bits on 8 bytes.
PadBlock(msg) ==
    msg \o <<128>> \o [k \in 1..(55 - Len(msg)) |-> 0] \o
    <<0, 0, 0, 0, 0, 0, (8 * Len(msg)) \div 256, (8 * Len(msg)) % 256>>

\* The 16 words of a block, big-endian.
BlockWords(block) ==
    [t \in 1..16 |-> Word(block[4 * t - 3] * 256 + block[4 * t - 2],
                          block[4 * t - 1] * 256 + block[4 * t])]

\* The state of the compression before its first round.
ShaInit(msg) == [t |-> 0, w |-> BlockWords(PadBlock(msg)), v |-> InitialHash]

\* Round t of the compression: the word of the message schedule, then the
\* eight working variables.
ShaRound(sha) ==
    LET t == sha.t
        w == sha.w
        wt == IF t < 16 THEN w[t + 1]
              ELSE Add32(Add32(SmallSigma1(w[t - 1]), w[t - 6]),
                         Add32(SmallSigma0(w[t - 14]), w[t - 15]))
        v == sha.v
        t1 == Add32(Add32(Add32(v[8], BigSigma1(v[5])), Ch(v[5], v[6], v[7])),
                    Add32(RoundConstants[t + 1], wt))
        t2 == Add32(BigSigma0(v[1]), Maj(v[1], v[2], v[3])) IN
    [t |-> t + 1,
     w |-> IF t < 16 THEN w ELSE Append(w, wt),
     v |-> <<Add32(t1, t2), v[1], v[2], v[3], Add32(v[4], t1), v[5], v[6], v[7]>>]

\* digest(): the initial hash value plus the working variables, as 32 bytes
DigestBytes(sha) ==
    LET h == [i \in 1..8 |-> Add32(InitialHash[i], sha.v[i])] IN
    [k \in 1..32 |->
        LET word == h[(k - 1) \div 4 + 1] IN
        CASE (k - 1) % 4 = 0 -> word.hi \div 256
          [] (k - 1) % 4 = 1 -> word.hi % 256
          [] (k - 1) % 4 = 2 -> word.lo \div 256
          [] OTHER -> word.lo % 256]

\* The sixteen hexadecimal digits.
HexString ==
    <<"0", "1", "2", "3", "4", "5", "6", "7", "8", "9", "a", "b", "c", "d", "e", "f">>

\* bytes.hex()
BytesHex(b) ==
    [k \in 1..(2 * Len(b)) |->
        IF k % 2 = 1 THEN HexString[b[(k + 1) \div 2] \div 16 + 1]
        ELSE HexString[(b[k \div 2] % 16) + 1]]

\* The value of a hexadecimal digit.
HexValue(c) == CHOOSE n \in 0..15 : HexString[n + 1] = c

\* bytes.fromhex()
FromHex(h) ==
    [k \in 1..(Len(h) \div 2) |-> 16 * HexValue(h[2 * k - 1]) + HexValue(h[2 * k])]

\* LXMF_NAME_HASH, NOMADNET_NAME_HASH and DEST_NAME_HASHES
LXMF_NAME_HASH ==
    FromHex(<<"6", "e", "c", "6", "0", "b", "c", "3", "1", "8",
              "e", "2", "c", "0", "f", "0", "d", "9", "0", "8">>)
NOMADNET_NAME_HASH ==
    FromHex(<<"2", "1", "3", "e", "6", "3", "1", "1", "b", "c",
              "e", "c", "5", "4", "a", "b", "4", "f", "d", "e">>)
DEST_NAME_HASHES(d) ==
    IF d = <<"lxmf", ".", "delivery">> THEN LXMF_NAME_HASH ELSE NOMADNET_NAME_HASH

\* ---------------------------------------------------------------- matcher
\* The length of a rendered digest, the longest pattern the validator takes.
MaxPatternLen == 32

\* The characters strings are made of here: hex digits in both cases, a
\* digit, a letter that is no hex digit, and a whitespace character.
Chars == {"a", "F", "9", "g", " "}

\* "0123456789abcdef"
HexChars ==
    {"0", "1", "2", "3", "4", "5", "6", "7", "8", "9", "a", "b", "c", "d", "e", "f"}

\* The strings over S of at most n characters.
SeqsUpTo(S, n) == UNION {SeqsOfLen(S, k) : k \in 0..n}

\* str.lower() on one character
LowerChar(c) ==
    CASE c = "A" -> "a" [] c = "B" -> "b" [] c = "C" -> "c" [] c = "D" -> "d"
      [] c = "E" -> "e" [] c = "F" -> "f" [] c = "G" -> "g" [] OTHER -> c

\* str.lower()
Lower(s) == [k \in DOMAIN s |-> LowerChar(s[k])]

\* str.isspace() on one character
IsSpace(c) == c = " "

\* str.lstrip()
RECURSIVE LStrip(_)
LStrip(s) ==
    IF s # <<>> /\ IsSpace(Head(s)) THEN LStrip(Tail(s)) ELSE s

\* str.rstrip()
RECURSIVE RStrip(_)
RStrip(s) ==
    IF s # <<>> /\ IsSpace(s[Len(s)]) THEN RStrip(SubSeq(s, 1, Len(s) - 1)) ELSE s

\* A strip() that leaves the string as it is.
StripNothing(s) == s

\* str.strip()
Strip(s) == RStrip(LStrip(s))

\* A length test that already refuses the longest digest.
TooLongAtLimit(cleaned) == Len(cleaned) >= MaxPatternLen

\* validate_hex_pattern: len(cleaned) > 32
TooLong(cleaned) == Len(cleaned) > MaxPatternLen

\* validate_hex_pattern: what it raises ("": nothing) and what it returns
ValidateHexPattern(pattern) ==
    LET cleaned == Strip(Lower(pattern)) IN
    IF cleaned = <<>> THEN [raised |-> "ValueError", value |-> <<>>]
    ELSE IF ~(\A k \in DOMAIN cleaned : cleaned[k] \in HexChars)
        THEN [raised |-> "ValueError", value |-> <<>>]
    ELSE IF TooLong(cleaned) THEN [raised |-> "ValueError", value |-> <<>>]
    ELSE [raised |-> "", value |-> cleaned]

\* The parentheses of s from depth on are balanced.
RECURSIVE Balanced(_, _)
Balanced(s, depth) ==
    IF s = <<>> THEN depth = 0
    ELSE IF Head(s) = "(" THEN Balanced(Tail(s), depth + 1)
    ELSE IF Head(s) = ")" THEN depth > 0 /\ Balanced(Tail(s), depth - 1)
    ELSE Balanced(Tail(s), depth)

\* None where a pattern is expected: the value of a command-line flag that
\* was not given.
NonePattern == <<"None">>

\* re.compile(s) does not raise: s is a string and, over letters, digits,
\* spaces and parentheses, its parentheses are balanced
RegexCompiles(s) == s # NonePattern /\ Balanced(s, 0)

\* MatchPattern.compile() does not raise
PatternCompiles(pat) == pat.mode = "regex" => RegexCompiles(pat.pattern)

\* Python's integers have no width: an integer is the sequence of its
\* binary digits, the most significant first and no leading zero (0 is <<>>).
Zeros(n) == [k \in 1..n |-> 0]

\* 2 ** k; 16 ** n is Pow2Bits(4 * n)
Pow2Bits(k) == <<1>> \o Zeros(k)

\* The digits without their leading zeros.
RECURSIVE Normal(_)
Normal(bits) ==
    IF bits # <<>> /\ Head(bits) = 0 THEN Normal(Tail(bits)) ELSE bits

\* bits + 1
RECURSIVE Incr(_)
Incr(bits) ==
    IF bits = <<>> THEN <<1>>
    ELSE IF bits[Len(bits)] = 0
        THEN SubSeq(bits, 1, Len(bits) - 1) \o <<1>>
        ELSE Incr(SubSeq(bits, 1, Len(bits) - 1)) \o <<0>>

\* 2 ** j modulo p for p up to 2 ** 5 and j up to 7 * 30, in numbers that
\* stay below 2 ** 31
PowMod2(j, p) ==
    LET high == IF j < 30 THEN 1 % p ELSE (((2 ^ 30) % p) ^ (j \div 30)) % p IN
    (high * ((2 ^ (j % 30)) % p)) % p

\* Long division of 2 ** k (a one and k zeros) by the small integer p: the
\* remainder carried into digit i + 1 is 2 ** (i - 1) modulo p, so digit i
\* of the quotient is twice the remainder before it, divided by p.  The
\* quotient without the digits below the unit, and the remainder.
DivBits(k, p) ==
    [q |-> Normal([i \in 1..(k + 1) |->
                      IF i = 1 THEN 1 \div p
                      ELSE (2 * PowMod2(i - 2, p)) \div p]),
     r |-> PowMod2(k, p)]

\* The significand of a float (IEEE 754 double) has 53 binary digits.
MantissaBits == 53

\* Binary digits of the quotient computed below the binary point, enough
\* for the rounding digit whatever the operands.
GuardBits == 64

\* max(a, b)
Max(a, b) == IF a >= b THEN a ELSE b

\* int / int for 2 ** k and p: the float nearest to the quotient, ties to
\* the even significand, as the number mant * 2 ** exp
TrueDivide(k, p) ==
    LET d == DivBits(k + GuardBits, p)
        S == d.q
        m == SubSeq(S, 1, MantissaBits)
        sticky == \/ d.r # 0
                  \/ \E i \in (MantissaBits + 2)..Len(S) : S[i] = 1
        up == S[MantissaBits + 1] = 1 /\ (sticky \/ m[MantissaBits] = 1) IN
    [mant |-> IF up THEN Incr(m) ELSE m,
     exp |-> Len(S) - MantissaBits - GuardBits]

\* int(f) of a float: the digits below the binary point are dropped
IntOfFloat(f) ==
    IF f.exp >= 0 THEN f.mant \o Zeros(f.exp)
    ELSE Normal(SubSeq(f.mant, 1, Max(0, Len(f.mant) + f.exp)))

\* An estimator that divides by the number of positions in every mode.
EstimateByPositions(pat) ==
    LET n == Len(pat.pattern) IN
    [known |-> TRUE,
     expected_attempts |-> IntOfFloat(TrueDivide(4 * n, Max(1, 32 - n + 1)))]

\* estimate_difficulty: expected_attempts (known is false where the code
\* reports None); the seconds and the description are left out
EstimateDifficulty(pat) ==
    LET n == Len(pat.pattern) IN
    IF pat.mode = "prefix"
        THEN [known |-> TRUE, expected_attempts |-> Pow2Bits(4 * n)]
    ELSE IF pat.mode = "suffix"
        THEN [known |-> TRUE, expected_attempts |-> Pow2Bits(4 * n)]
    ELSE IF pat.mode = "contains"
        THEN [known |-> TRUE,
              expected_attempts |->
                  IntOfFloat(TrueDivide(4 * n, Max(1, 32 - n + 1)))]
    ELSE [known |-> FALSE, expected_attempts |-> <<>>]

\* ------------------------------------------------------------------ state
VARIABLES
    \* VanityGenerator's fields
    match_pattern,   \* self.match_pattern: [mode, pattern]
    num_workers,     \* self.num_workers
    workers,         \* self._workers: sequence of processes <<start_time, index>>
    created,         \* queue, stop event and counter exist (are not None)
    result_queue,    \* the pipe of self._result_queue, as the reader sees it
    stop_event,      \* self._stop_event.is_set()
    counter,         \* self._counter: the shared value
    start_time,      \* self._start_time: 0, then the tick of the last start()
    results,         \* self._results
    is_running,      \* self._is_running
    \* the shared primitives' inner state
    lock,            \* holder of the counter's lock (0: free)
    buffer,          \* per worker: items put and not yet written to the pipe
    \* search_worker's locals, per worker
    wpc,             \* where the worker stands
    idx,             \* the batch loop's index (for _ in range(batch_size))
    local_count,     \* local_count
    tmp,             \* the value read by "counter.value += local_count"
    \* the caller's thread
    opc,             \* where the orchestrator stands inside poll() or stop()
    jn,              \* stop(): index of the worker being joined
    stats,           \* the GeneratorStats a poll() has just returned
    ret,             \* what the last stop() of this run returned
    start_raised,    \* the step just taken was a start() that raised
    \* history of the run
    rb,              \* where the caller is in run_blocking() ("off": not in it)
    watch,           \* which of last_total and late this behaviour records
    pushed,          \* items put on the queue
    made,            \* per worker: candidates generated
    late,            \* per worker in its loop: candidates generated since the flag was set
    last_total,      \* total_checked of the running run's last poll() (-1: none)
    counter_at_set,  \* the counter when the flag was first set (-1: not set)
    stopped,         \* a stop() has returned since the last start()
    by_poll,         \* a poll() ended the run (is_running: True -> False)
    notified,        \* the results on_result was called with, in order
    completions,     \* calls of on_complete since the last start()
    call             \* the last call of a pure function or of the constructor

vars == <<match_pattern, num_workers, workers, created, result_queue, stop_event,
          counter, start_time, results, is_running, lock, buffer, wpc, idx,
          local_count, tmp, opc, jn, stats, ret, start_raised, pushed, made,
          late, last_total, counter_at_set, stopped, by_poll, notified,
          completions, watch, rb, call>>

config == <<match_pattern, num_workers, watch, call>>
fields == <<workers, created, result_queue, stop_event, counter, start_time,
            results, is_running>>
wlocals == <<wpc, idx, local_count, tmp>>
history == <<pushed, made, late, last_total, counter_at_set, stopped, by_poll,
             notified, completions>>

\* The worker processes of a run.  num_workers is 1 or 2: two workers give
\* every interleaving of a finder with another worker, and a third worker
\* puts the state space beyond what TLC explores.
WorkerIds == {1, 2}

\* Candidates generated by all workers in this run.
TotalMade == made[1] + made[2]

\* The worker process has not exited and was not terminated.
Running(w) == wpc[w] \notin {"none", "done", "dead", "crashed"}

\* Process.is_alive() of a tracked process
IsAlive(p) == p[1] = start_time /\ Running(p[2])

\* Stats that still count the results collected so far.
StatsWithResults ==
    [total_checked |-> 0, elapsed |-> 0, rate |-> 0, is_running |-> FALSE,
     results_found |-> Len(results)]

\* GeneratorStats()
DefaultStats ==
    [total_checked |-> 0, elapsed |-> 0, rate |-> 0, is_running |-> FALSE,
     results_found |-> 0]

\* time.time() - self._start_time as poll() may measure it, in whole units:
\* nothing, or some time.
Elapsed == {0, 1}

\* No poll() has just returned.
NoStats ==
    [total_checked |-> -1, elapsed |-> -1, rate |-> -1, is_running |-> FALSE,
     results_found |-> -1]

\* GeneratorResult(...) built from a queue item and the counter as read
MakeResult(item, total) ==
    [private_key |-> item.prv, dest_hash_hex |-> item.hex, total_checked |-> total]

\* No pure function was called and the generator is the one Init built.
NoCall ==
    [fn |-> "none", mode |-> "", pattern |-> <<>>, dest_type |-> <<>>,
     num_workers |-> 0, cpu_count |-> 0, raised |-> "", value |-> <<>>,
     known |-> FALSE, expected_attempts |-> <<>>, hex_addr |-> <<>>,
     matched |-> FALSE, name_hash |-> <<>>, private_key |-> <<>>,
     identity_hash |-> <<>>, dest_hex |-> <<>>,
     sha |-> [t |-> 0, w |-> <<>>, v |-> <<>>],
     flag |-> "", exit |-> -1]

InitFields ==
    /\ call = NoCall
    /\ match_pattern \in Configs
    /\ num_workers \in WorkerIds
    /\ workers = <<>>
    /\ created = FALSE
    /\ result_queue = <<>>
    /\ stop_event = FALSE
    /\ counter = 0
    /\ start_time = 0
    /\ results = <<>>
    /\ is_running = FALSE
    /\ lock = 0
    /\ buffer = [w \in WorkerIds |-> <<>>]
    /\ wpc = [w \in WorkerIds |-> "none"]
    /\ idx = [w \in WorkerIds |-> 0]
    /\ local_count = [w \in WorkerIds |-> 0]
    /\ tmp = [w \in WorkerIds |-> 0]
    /\ opc = "idle"
    /\ jn = 0
    /\ rb = "off"
    /\ stats = NoStats
    /\ ret = <<>>
    /\ start_raised = FALSE
    /\ late = [w \in WorkerIds |-> 0]
    /\ counter_at_set = -1
    /\ last_total = -1
    /\ pushed = {}
    /\ made = [w \in WorkerIds |-> 0]
    /\ stopped = FALSE
    /\ by_poll = FALSE
    /\ notified = <<>>
    /\ completions = 0

\* The history variables late, last_total and notified are recorded in the
\* behaviours of the specifications that read them (SpecCancel for late,
\* SpecPolls for last_total, the others for notified) and left alone in the
\* rest; no action reads them.
Init == InitFields /\ watch = "calls"

InitPolls == InitFields /\ watch = "polls"

InitCancel == InitFields /\ watch = "cancel"

\* ---------------------------------------------------------- search_worker
\* The counter's lock can be taken.
LockFree == lock = 0

\* A flush that stores the local count instead of adding it.
FlushOverwrites(read, n) == n

\* counter.value += local_count, from the value read
FlushValue(read, n) == read + n

\* A batch flush that keeps the local count.
LocalCountKept(n) == n

\* local_count = 0 after the flush of a batch
LocalCountReset(n) == 0

\* A batch loop that makes one pass too many.
BatchDoneLate(i) == i >= BatchSize

\* for _ in range(batch_size): the pass with index i was the batch's last
BatchDone(i) == i + 1 >= BatchSize

\* while not stop_event.is_set(): begin a batch, or leave the loop
WorkerCheck(w) ==
    /\ wpc[w] = "check"
    /\ PatternCompiles(match_pattern)
    /\ IF stop_event
         THEN /\ wpc' = [wpc EXCEPT ![w] =
                            IF local_count[w] > 0 THEN "acq_t" ELSE "exit"]
              /\ UNCHANGED idx
         ELSE /\ wpc' = [wpc EXCEPT ![w] = "gen"]
              /\ idx' = [idx EXCEPT ![w] = 0]
    /\ late' = [late EXCEPT ![w] = IF stop_event THEN 0 ELSE @]
    /\ start_raised' = FALSE
    /\ stats' = NoStats
    /\ UNCHANGED <<config, rb, fields, lock, buffer, local_count, tmp, opc, jn, ret,
                   pushed, notified,
                   completions, made, last_total, counter_at_set, stopped, by_poll>>

\* search_worker: pattern.compile() raises before the loop is entered and
\* the process dies of the exception, the flag not set
WorkerCompile(w) ==
    /\ wpc[w] = "check"
    /\ made[w] = 0 /\ local_count[w] = 0 /\ idx[w] = 0
    /\ ~PatternCompiles(match_pattern)
    /\ wpc' = [wpc EXCEPT ![w] = "crashed"]
    /\ start_raised' = FALSE
    /\ stats' = NoStats
    /\ UNCHANGED <<config, rb, fields, lock, buffer, idx, local_count, tmp, opc,
                   jn, ret, history>>

\* A worker that goes on generating after it has put a result.
AfterPutContinues == "gen"

\* After result_queue.put(...) the worker goes to stop_event.set(), the
\* flush and the return
AfterPut == "set"

\* One pass of the batch loop: generate_and_hash, local_count += 1, and on a
\* match result_queue.put(...)
WorkerGen(w) ==
    /\ wpc[w] = "gen"
    /\ stop_event \/ TotalMade < MaxAttempts
    /\ \E h \in DestHexSpace :
         /\ local_count' = [local_count EXCEPT ![w] = @ + 1]
         /\ made' = [made EXCEPT ![w] = @ + 1]
         /\ late' = [late EXCEPT ![w] =
                       IF watch = "cancel" /\ stop_event THEN @ + 1 ELSE @]
         /\ IF Matches(match_pattern, h)
              THEN /\ buffer' = [buffer EXCEPT ![w] =
                                    Append(@, [prv |-> w, hex |-> h])]
                   /\ pushed' = pushed \cup {[prv |-> w, hex |-> h]}
                   /\ wpc' = [wpc EXCEPT ![w] = AfterPut]
                   /\ UNCHANGED idx
              ELSE /\ idx' = [idx EXCEPT ![w] = @ + 1]
                   /\ wpc' = [wpc EXCEPT ![w] =
                                 IF BatchDone(idx[w]) THEN "acq_b" ELSE "gen"]
                   /\ UNCHANGED <<buffer, pushed>>
    /\ start_raised' = FALSE
    /\ stats' = NoStats
    /\ UNCHANGED <<config, rb, fields, lock, tmp, opc, jn, ret,
                   last_total, counter_at_set, stopped, by_poll,
                   notified,
                   completions>>

\* stop_event.set() after a match
WorkerSet(w) ==
    /\ wpc[w] = "set"
    /\ stop_event' = TRUE
    /\ counter_at_set' = IF stop_event THEN counter_at_set ELSE counter
    /\ wpc' = [wpc EXCEPT ![w] = "acq_m"]
    /\ late' = [late EXCEPT ![w] = 0]
    /\ start_raised' = FALSE
    /\ stats' = NoStats
    /\ UNCHANGED <<config, rb, workers, created, result_queue, counter, start_time,
                   results, is_running, lock, buffer, idx, local_count, tmp,
                   opc, jn, ret, pushed, notified,
                   completions, made, last_total, stopped, by_poll>>

\* with counter.get_lock(): ... and the read of counter.value += local_count
WorkerAcquire(w) ==
    /\ wpc[w] \in {"acq_b", "acq_m", "acq_t"}
    /\ LockFree
    /\ lock' = w
    /\ tmp' = [tmp EXCEPT ![w] = counter]
    /\ wpc' = [wpc EXCEPT ![w] =
                  CASE wpc[w] = "acq_b" -> "wr_b"
                    [] wpc[w] = "acq_m" -> "wr_m"
                    [] OTHER -> "wr_t"]
    /\ start_raised' = FALSE
    /\ stats' = NoStats
    /\ UNCHANGED <<config, rb, fields, buffer, idx, local_count, opc, jn, ret, history>>

\* The write of counter.value += local_count, and the lock's release; after a
\* batch, local_count = 0 and back to the loop's test
WorkerWrite(w) ==
    /\ wpc[w] \in {"wr_b", "wr_m", "wr_t"}
    /\ counter' = FlushValue(tmp[w], local_count[w])
    /\ lock' = IF lock = w THEN 0 ELSE lock
    /\ tmp' = [tmp EXCEPT ![w] = 0]
    /\ IF wpc[w] = "wr_b"
         THEN /\ local_count' = [local_count EXCEPT ![w] = LocalCountReset(@)]
              /\ wpc' = [wpc EXCEPT ![w] = "check"]
         ELSE /\ wpc' = [wpc EXCEPT ![w] = "exit"]
              /\ UNCHANGED local_count
    /\ start_raised' = FALSE
    /\ stats' = NoStats
    /\ UNCHANGED <<config, rb, workers, created, result_queue, stop_event, start_time,
                   results, is_running, buffer, idx, opc, jn, ret,
                   history>>

\* The queue's feeder thread of a live worker writes one item to the pipe.
WorkerFeed(w) ==
    /\ Running(w)
    /\ buffer[w] # <<>>
    /\ result_queue' = Append(result_queue, Head(buffer[w]))
    /\ buffer' = [buffer EXCEPT ![w] = Tail(@)]
    /\ start_raised' = FALSE
    /\ stats' = NoStats
    /\ UNCHANGED <<config, rb, workers, created, stop_event, counter, start_time,
                   results, is_running, lock, wlocals, opc, jn, ret, history>>

\* An exit that does not wait for the feeder thread: the buffer is lost.
ExitFlushDrops(q, buf) == q

\* What a process that exits normally leaves in the pipe: its buffer, flushed.
ExitFlush(q, buf) == q \o buf

\* The worker function returns and the process exits (its memory is gone).
WorkerExit(w) ==
    /\ wpc[w] = "exit"
    /\ result_queue' = ExitFlush(result_queue, buffer[w])
    /\ buffer' = [buffer EXCEPT ![w] = <<>>]
    /\ wpc' = [wpc EXCEPT ![w] = "done"]
    /\ idx' = [idx EXCEPT ![w] = 0]
    /\ local_count' = [local_count EXCEPT ![w] = 0]
    /\ late' = [late EXCEPT ![w] = 0]
    /\ start_raised' = FALSE
    /\ stats' = NoStats
    /\ UNCHANGED <<config, rb, workers, created, stop_event, counter, start_time,
                   results, is_running, lock, tmp, opc, jn, ret,
                   pushed, notified,
                   completions, made, last_total, counter_at_set, stopped, by_poll>>

Worker(w) ==
    \/ WorkerCheck(w)
    \/ WorkerGen(w)
    \/ WorkerSet(w)
    \/ WorkerAcquire(w)
    \/ WorkerWrite(w)
    \/ WorkerFeed(w)
    \/ WorkerExit(w)

\* -------------------------------------------------------- VanityGenerator
\* A start() that never refuses.
StartNeverRaises == FALSE

\* start(): the test that raises RuntimeError("Generator is already running")
StartRaises == is_running

\* start()
Start ==
    /\ opc = "idle"
    /\ rb \in {"off", "start"}
    /\ IF StartRaises
         THEN /\ start_raised' = TRUE
              /\ UNCHANGED <<fields, lock, buffer, wlocals, ret, history>>
         ELSE /\ start_time < MaxRuns
              /\ created' = TRUE
              /\ result_queue' = <<>>
              /\ stop_event' = FALSE
              /\ counter' = 0
              /\ lock' = 0
              /\ start_time' = start_time + 1
              /\ results' = <<>>
              /\ is_running' = TRUE
              /\ workers' = workers \o
                     [k \in 1..num_workers |-> <<start_time + 1, k>>]
              /\ wpc' = [w \in WorkerIds |->
                            IF w <= num_workers THEN "check" ELSE "none"]
              /\ buffer' = [w \in WorkerIds |-> <<>>]
              /\ idx' = [w \in WorkerIds |-> 0]
              /\ local_count' = [w \in WorkerIds |-> 0]
              /\ tmp' = [w \in WorkerIds |-> 0]
              /\ pushed' = {}
              /\ made' = [w \in WorkerIds |-> 0]
              /\ late' = [w \in WorkerIds |-> 0]
              /\ counter_at_set' = -1
              /\ last_total' = -1
              /\ stopped' = FALSE
              /\ by_poll' = FALSE
              /\ notified' = <<>>
              /\ completions' = 0
              /\ ret' = <<>>
              /\ start_raised' = FALSE
    /\ rb' = IF rb = "start" THEN (IF StartRaises THEN "off" ELSE "loop") ELSE rb
    /\ stats' = NoStats
    /\ UNCHANGED <<config, opc, jn>>

\* A poll() that never sees the run end.
PollNeverFinished == FALSE

\* A poll() that ends the run on the flag alone.
PollFinishedOnFlag == stop_event

\* poll(): the test that ends the run
PollFinished ==
    stop_event /\ \A k \in 1..Len(workers) : ~IsAlive(workers[k])

\* poll() is entered; not running, it returns a fresh GeneratorStats at once
PollBegin ==
    /\ opc = "idle"
    /\ rb = "off" \/ (rb = "loop" /\ is_running)
    /\ opc' = IF is_running THEN "poll_drain" ELSE "idle"
    /\ stats' = IF is_running THEN NoStats ELSE DefaultStats
    /\ start_raised' = FALSE
    /\ UNCHANGED <<config, rb, fields, lock, buffer, wlocals, jn, ret, history>>

\* if self.on_result: self.on_result(result), with a callback set
OnResult(calls, result) == Append(calls, result)

\* poll(): one pass of the drain loop (get_nowait, counter.value, append)
PollDrain ==
    /\ opc = "poll_drain"
    /\ result_queue # <<>>
    /\ LockFree
    /\ results' = Append(results, MakeResult(Head(result_queue), counter))
    /\ notified' = IF watch = "calls"
                      THEN OnResult(notified, MakeResult(Head(result_queue), counter))
                      ELSE notified
    /\ result_queue' = Tail(result_queue)
    /\ start_raised' = FALSE
    /\ stats' = NoStats
    /\ UNCHANGED <<config, rb, workers, created, stop_event, counter, start_time,
                   is_running, lock, buffer, wlocals, opc, jn, ret,
                   pushed, made, late, last_total, counter_at_set, stopped,
                   by_poll, completions>>

\* poll(): the queue is seen empty
PollDrained ==
    /\ opc = "poll_drain"
    /\ result_queue = <<>>
    /\ opc' = "poll_stats"
    /\ start_raised' = FALSE
    /\ stats' = NoStats
    /\ UNCHANGED <<config, rb, fields, lock, buffer, wlocals, jn, ret, history>>

\* A poll() that calls on_complete whether the run has ended or not.
CompleteCalledAlways(finished) == TRUE

\* if self.on_complete: self.on_complete(), with a callback set, inside the
\* branch of the completion test
CompleteCalled(finished) == finished

\* poll(): the stats are filled, the end of the run is tested, stats returned
PollFinish ==
    /\ opc = "poll_stats"
    /\ LockFree
    /\ \E elapsed \in Elapsed :
          stats' = [total_checked |-> counter,
                    elapsed |-> elapsed,
                    rate |-> IF elapsed > 0 THEN counter \div elapsed ELSE 0,
                    is_running |-> is_running,
                    results_found |-> Len(results)]
    /\ is_running' = IF PollFinished THEN FALSE ELSE is_running
    /\ by_poll' = IF PollFinished THEN TRUE ELSE by_poll
    /\ completions' = IF CompleteCalled(PollFinished) THEN completions + 1
                                                          ELSE completions
    /\ last_total' = IF watch = "polls" /\ ~PollFinished THEN counter ELSE -1
    /\ opc' = "idle"
    /\ start_raised' = FALSE
    /\ UNCHANGED <<config, rb, workers, created, result_queue, stop_event, counter,
                   start_time, results, lock, buffer, wlocals, jn, ret,
                   pushed, notified, made, late, counter_at_set, stopped>>

\* A drain loop that may end with items left in the queue.
DrainEndsEarly(q) == TRUE

\* stop(): self._result_queue.empty() answers True and the drain loop ends
DrainDone(q) == q = <<>>

\* stop(): the stop event is set
StopBegin ==
    /\ opc = "idle"
    /\ rb \in {"off", "interrupted"} \/ (rb = "loop" /\ ~is_running)
    /\ rb' = IF rb = "loop" THEN "stop" ELSE rb
    /\ stop_event' = IF created THEN TRUE ELSE stop_event
    /\ counter_at_set' =
           IF created /\ ~stop_event THEN counter ELSE counter_at_set
    /\ last_total' = -1
    /\ opc' = "stop_join"
    /\ jn' = 1
    /\ start_raised' = FALSE
    /\ stats' = NoStats
    /\ UNCHANGED <<config, workers, created, result_queue, counter, start_time,
                   results, is_running, lock, buffer, wlocals, ret,
                   pushed, notified,
                   completions, made, late, stopped, by_poll>>

\* stop(): w.join(timeout=2.0) returns for a worker that has exited
StopJoined ==
    /\ opc = "stop_join"
    /\ jn <= Len(workers)
    /\ ~IsAlive(workers[jn])
    /\ jn' = jn + 1
    /\ start_raised' = FALSE
    /\ stats' = NoStats
    /\ UNCHANGED <<config, rb, fields, lock, buffer, wlocals, opc, ret, history>>

\* stop(): the join times out on a worker still alive, and w.terminate():
\* the process dies where it stands, with its buffer and its locals; a lock
\* it holds stays taken
StopTerminate ==
    /\ opc = "stop_join"
    /\ jn <= Len(workers)
    /\ IsAlive(workers[jn])
    /\ wpc' = [wpc EXCEPT ![workers[jn][2]] = "dead"]
    /\ buffer' = [buffer EXCEPT ![workers[jn][2]] = <<>>]
    /\ idx' = [idx EXCEPT ![workers[jn][2]] = 0]
    /\ local_count' = [local_count EXCEPT ![workers[jn][2]] = 0]
    /\ tmp' = [tmp EXCEPT ![workers[jn][2]] = 0]
    /\ late' = [late EXCEPT ![workers[jn][2]] = 0]
    /\ jn' = jn + 1
    /\ start_raised' = FALSE
    /\ stats' = NoStats
    /\ UNCHANGED <<config, rb, fields, lock, opc, ret, pushed, notified,
                   completions, made,
                   last_total, counter_at_set, stopped, by_poll>>

\* stop(): every worker has been joined
StopJoinsDone ==
    /\ opc = "stop_join"
    /\ jn > Len(workers)
    /\ opc' = "stop_drain"
    /\ jn' = 0
    /\ start_raised' = FALSE
    /\ stats' = NoStats
    /\ UNCHANGED <<config, rb, fields, lock, buffer, wlocals, ret,
                   history>>

\* stop(): one pass of the final drain (get_nowait, counter.value, append)
StopDrain ==
    /\ opc = "stop_drain"
    /\ created
    /\ result_queue # <<>>
    /\ LockFree
    /\ results' = Append(results, MakeResult(Head(result_queue), counter))
    /\ result_queue' = Tail(result_queue)
    /\ start_raised' = FALSE
    /\ stats' = NoStats
    /\ UNCHANGED <<config, rb, workers, created, stop_event, counter, start_time,
                   is_running, lock, buffer, wlocals, opc, jn, ret, history>>

\* A stop() that hands back the first collected result only.
StopResultFirst(res) == IF res = <<>> THEN <<>> ELSE <<Head(res)>>

\* stop(): return self._results
StopResult(res) == res

\* stop(): the queue is seen empty (or there is none); the workers are
\* forgotten, the run is over and the collected results are returned
StopReturn ==
    /\ opc = "stop_drain"
    /\ ~created \/ DrainDone(result_queue)
    /\ workers' = <<>>
    /\ is_running' = FALSE
    /\ ret' = StopResult(results)
    /\ stopped' = TRUE
    /\ opc' = "idle"
    /\ rb' = "off"
    /\ start_raised' = FALSE
    /\ stats' = NoStats
    /\ UNCHANGED <<config, created, result_queue, stop_event, counter, start_time,
                   results, lock, buffer, wlocals, jn, pushed, notified,
                   completions, made,
                   late, last_total, counter_at_set, by_poll>>

Orchestrator ==
    \/ PollDrain
    \/ PollDrained
    \/ PollFinish
    \/ StopJoined
    \/ StopTerminate
    \/ StopJoinsDone
    \/ StopDrain
    \/ StopReturn

\* A caller that uses start(), poll() and stop() in any order.
Caller == Start \/ PollBegin \/ StopBegin

Next ==
    \/ Caller
    \/ Orchestrator
    \/ \E w \in WorkerIds : Worker(w)

Spec == Init /\ [][Next]_vars

\* ------------------------------------------------------------ run_blocking
\* run_blocking() is entered; its first statement is self.start()
RunBlocking ==
    /\ opc = "idle"
    /\ rb = "off"
    /\ rb' = "start"
    /\ start_raised' = FALSE
    /\ stats' = NoStats
    /\ UNCHANGED <<config, fields, lock, buffer, wlocals, opc, jn, ret, history>>

\* A run_blocking() that lets the KeyboardInterrupt out to its caller.
InterruptEscapes == TRUE

\* run_blocking(): "except KeyboardInterrupt: pass" and a finally clause that
\* returns, so the exception does not leave the function
InterruptPropagates == FALSE

\* KeyboardInterrupt in run_blocking()'s loop, during the sleep or inside
\* poll() (whose "except Exception" does not catch it): the poll is
\* abandoned, the except clause passes and the finally clause calls stop()
Interrupt ==
    /\ opc \in {"idle", "poll_drain", "poll_stats"}
    /\ rb = "loop"
    /\ rb' = IF InterruptPropagates THEN "raised" ELSE "interrupted"
    /\ opc' = "idle"
    /\ start_raised' = FALSE
    /\ stats' = NoStats
    /\ UNCHANGED <<config, fields, lock, buffer, wlocals, jn, ret, history>>

\* The calls run_blocking() makes: start(), poll() while is_running, stop()
RbStep == rb # "off" /\ (Start \/ PollBegin \/ StopBegin)

\* The command line's use of the orchestrator: one run_blocking() on a
\* generator it has just built
CliRun == start_time = 0 /\ RunBlocking

\* A caller that only uses run_blocking(), as the command line does.
NextBlocking ==
    \/ CliRun
    \/ RbStep
    \/ Interrupt
    \/ Orchestrator
    \/ \E w \in WorkerIds : Worker(w)

\* The operating system schedules every live worker process and the calling
\* process; the caller's loop wakes from every sleep.  No fairness is asked
\* of Interrupt: nobody has to press Ctrl-C.
Fairness ==
    /\ \A w \in WorkerIds : WF_vars(Worker(w))
    /\ WF_vars(Orchestrator)
    /\ WF_vars(RbStep)

SpecBlocking == Init /\ [][NextBlocking]_vars /\ Fairness

\* The behaviours that record last_total, and those that record late.
SpecPolls == InitPolls /\ [][Next]_vars

SpecCancel == InitCancel /\ [][Next]_vars

\* ------------------------------------------------- calls and construction
\* MatchMode
Modes == {"prefix", "suffix", "contains", "regex"}

\* The strings given to the validator and to the constructor: every short
\* string, and hex strings around the longest length, bare, padded with
\* whitespace, in upper case, and with a letter that is no hex digit.
StrInputs ==
    SeqsUpTo(Chars, MaxStrLen) \cup
    UNION {{Rep("a", n), Rep("F", n), <<" ">> \o Rep("F", n) \o <<" ">>,
            Rep("a", n - 1) \o <<"g">>, <<"9">> \o Rep("F", n - 1)} :
               n \in (MaxPatternLen - 1)..(MaxPatternLen + 2)}

\* Patterns with parentheses, given to the constructor as regexes.
RegexInputs == {<<"(">>, <<")">>, <<"(", "a", ")">>}

\* The patterns given to the estimator: 'dead', 'be' and one of every
\* length.
EstInputs ==
    {<<"d", "e", "a", "d">>, <<"b", "e">>} \cup
    {Rep("a", n) : n \in 0..MaxEstLen}

\* DEST_NAME_HASHES: the destination types whose name hash is precomputed,
\* a destination type being its words and the dots between them
KnownDestTypes ==
    {<<"lxmf", ".", "delivery">>, <<"nomadnetwork", ".", "node">>}

\* The destination types given to the constructor.
DestTypes ==
    KnownDestTypes \cup
    {<<"x", ".", "y">>, <<"lxmf">>, <<"x">>, <<".">>, <<>>}

\* len(dest_type.split("."))
SplitCount(d) == 1 + Cardinality({k \in DOMAIN d : d[k] = "."})

\* A constructor that takes every destination type.
DestTypeNeverRaises(d) == FALSE

\* __init__: the destination type is refused
DestTypeRaises(d) == d \notin KnownDestTypes /\ SplitCount(d) < 2

\* The num_workers arguments and the answers of os.cpu_count() (0: None)
\* for which the generator has one or two workers.
NumWorkersArgs == {-1, 0, 1, 2}
CpuCounts == {0, 1, 2, 3}

\* A worker count without its floor of one.
WorkerCountNoFloor(n, cpu) ==
    IF n > 0 THEN n ELSE (IF cpu = 0 THEN 2 ELSE cpu) - 1

\* __init__: num_workers if num_workers > 0 else
\* max(1, (os.cpu_count() or 2) - 1)
WorkerCount(n, cpu) ==
    IF n > 0 THEN n ELSE Max(1, (IF cpu = 0 THEN 2 ELSE cpu) - 1)

\* __init__: what it raises, and the pattern_str it stores
ConstructorOutcome(mode, pattern, d) ==
    LET v == IF mode \in {"prefix", "suffix", "contains"}
                 THEN ValidateHexPattern(pattern)
                 ELSE [raised |-> "", value |-> pattern] IN
    IF v.raised # "" THEN v
    ELSE IF DestTypeRaises(d) THEN [raised |-> "ValueError", value |-> <<>>]
    ELSE v

\* validate_hex_pattern(s) is called
Validate ==
    /\ call.fn = "none"
    /\ \E s \in StrInputs :
          LET out == ValidateHexPattern(s) IN
          call' = [NoCall EXCEPT !.fn = "validate_hex_pattern", !.pattern = s,
                                 !.raised = out.raised, !.value = out.value]
    /\ start_raised' = FALSE
    /\ stats' = NoStats
    /\ UNCHANGED <<match_pattern, num_workers, watch, rb, fields, lock, buffer,
                   wlocals, opc, jn, ret, history>>

\* estimate_difficulty(MatchPattern(mode, pattern)) is called
Estimate ==
    /\ call.fn = "none"
    /\ \E m \in Modes, s \in EstInputs :
          LET out == EstimateDifficulty([mode |-> m, pattern |-> s]) IN
          call' = [NoCall EXCEPT !.fn = "estimate_difficulty", !.mode = m,
                                 !.pattern = s, !.known = out.known,
                                 !.expected_attempts = out.expected_attempts]
    /\ start_raised' = FALSE
    /\ stats' = NoStats
    /\ UNCHANGED <<match_pattern, num_workers, watch, rb, fields, lock, buffer,
                   wlocals, opc, jn, ret, history>>

\* VanityGenerator(pattern, mode, dest_type, num_workers) is called where the
\* caller held a generator it had not started; when it raises the caller
\* keeps the generator it had
Construct ==
    /\ call.fn = "none"
    /\ opc = "idle"
    /\ rb = "off"
    /\ start_time = 0
    /\ ~created
    /\ \E m \in Modes, s \in StrInputs \cup RegexInputs, d \in DestTypes,
          n \in NumWorkersArgs, cpu \in CpuCounts :
          LET out == ConstructorOutcome(m, s, d) IN
          /\ call' = [NoCall EXCEPT !.fn = "VanityGenerator", !.mode = m,
                                    !.pattern = s, !.dest_type = d,
                                    !.num_workers = n, !.cpu_count = cpu,
                                    !.raised = out.raised, !.value = out.value]
          /\ IF out.raised # ""
               THEN UNCHANGED <<match_pattern, num_workers>>
               ELSE /\ match_pattern' = [mode |-> m, pattern |-> out.value]
                    /\ num_workers' = WorkerCount(n, cpu)
    /\ workers' = <<>>
    /\ created' = FALSE
    /\ start_time' = 0
    /\ results' = <<>>
    /\ is_running' = FALSE
    /\ start_raised' = FALSE
    /\ stats' = NoStats
    /\ UNCHANGED <<watch, rb, result_queue, stop_event, counter, lock, buffer,
                   wlocals, opc, jn, ret, history>>

\* The patterns a MatchPattern is compiled from: every short string of hex
\* digits, strings of the digest's length and longer, and one in upper case.
MatchPatterns ==
    SeqsUpTo(HexDigits, HexLen) \cup
    {Rep("a", MaxPatternLen - 1), Rep("a", MaxPatternLen),
     Rep("a", MaxPatternLen + 1), <<"A">>}

\* The digests given to matches(): the short ones the workers generate and
\* some of the real length.
MatchInputs ==
    DestHexSpace \cup
    {Rep("a", MaxPatternLen), <<"0">> \o Rep("a", MaxPatternLen - 1),
     Rep("a", MaxPatternLen - 1) \o <<"0">>}

\* MatchPattern(mode, pattern).compile() is called for a new pattern, or
\* once more for the pattern already compiled; the CompiledPattern holds
\* the mode and the pattern
Compile ==
    /\ \E m \in {"prefix", "suffix", "contains"}, s \in MatchPatterns :
          /\ \/ call.fn = "none"
             \/ call.fn \in {"compile", "matches"} /\ call.mode = m
                                                   /\ call.pattern = s
          /\ call' = [NoCall EXCEPT !.fn = "compile", !.mode = m, !.pattern = s]
    /\ start_raised' = FALSE
    /\ stats' = NoStats
    /\ UNCHANGED <<match_pattern, num_workers, watch, rb, fields, lock, buffer,
                   wlocals, opc, jn, ret, history>>

\* matches(hex_addr) is called on the CompiledPattern, for the first time or
\* after other calls
Match ==
    /\ call.fn \in {"compile", "matches"}
    /\ \E x \in MatchInputs :
          call' = [call EXCEPT !.fn = "matches", !.hex_addr = x,
                               !.matched = Matches([mode |-> call.mode,
                                                    pattern |-> call.pattern], x)]
    /\ start_raised' = FALSE
    /\ stats' = NoStats
    /\ UNCHANGED <<match_pattern, num_workers, watch, rb, fields, lock, buffer,
                   wlocals, opc, jn, ret, history>>

\* The private keys the generator may draw.
KeyIds == {1, 2, 3}

\* generate_and_hash(name_hash) is called with the name hash of a
\* destination type the constructor takes
Generate ==
    /\ call.fn = "none"
    /\ \E d \in {t \in DestTypes : ~DestTypeRaises(t)}, x \in KeyIds, e \in KeyIds :
          LET nh == ComputeNameHash(d)
              out == GenerateAndHash(nh, X25519PrivateKey(x), Ed25519PrivateKey(e)) IN
          call' = [NoCall EXCEPT !.fn = "generate_and_hash", !.name_hash = nh,
                                 !.private_key = out.private_key,
                                 !.identity_hash = out.identity_hash,
                                 !.dest_hex = out.dest_hex]
    /\ start_raised' = FALSE
    /\ stats' = NoStats
    /\ UNCHANGED <<match_pattern, num_workers, watch, rb, fields, lock, buffer,
                   wlocals, opc, jn, ret, history>>

\* compute_name_hash(dest_name) is called: the name is encoded and padded
\* and the compression is set up
HashBegin ==
    /\ call.fn = "none"
    /\ \E d \in KnownDestTypes \cup {<<"x", ".", "y">>} :
          call' = [NoCall EXCEPT !.fn = "sha256", !.dest_type = d,
                                 !.sha = ShaInit(NameBytes(d))]
    /\ start_raised' = FALSE
    /\ stats' = NoStats
    /\ UNCHANGED <<match_pattern, num_workers, watch, rb, fields, lock, buffer,
                   wlocals, opc, jn, ret, history>>

\* One of the 64 rounds of the compression
HashRound ==
    /\ call.fn = "sha256"
    /\ call.sha.t < 64
    /\ call' = [call EXCEPT !.sha = ShaRound(call.sha)]
    /\ start_raised' = FALSE
    /\ stats' = NoStats
    /\ UNCHANGED <<match_pattern, num_workers, watch, rb, fields, lock, buffer,
                   wlocals, opc, jn, ret, history>>

\* compute_name_hash returns the first NAME_HASH_LENGTH // 8 bytes of the
\* digest
HashReturn ==
    /\ call.fn = "sha256"
    /\ call.sha.t = 64
    /\ call' = [call EXCEPT !.fn = "compute_name_hash",
                            !.name_hash = SubSeq(DigestBytes(call.sha), 1,
                                                 NAME_HASH_LENGTH \div 8)]
    /\ start_raised' = FALSE
    /\ stats' = NoStats
    /\ UNCHANGED <<match_pattern, num_workers, watch, rb, fields, lock, buffer,
                   wlocals, opc, jn, ret, history>>

\* parse_args: the four pattern flags exclude one another and one is
\* required; the flags not given are None
ParseArgs(flag, s) == [f \in Modes |-> IF f = flag THEN s ELSE NonePattern]

\* "if args.prefix:" and the like: the value is neither None nor empty
Truthy(v) == v # NonePattern /\ v # <<>>

\* main(): the mode and the pattern chosen from the parsed flags
MainSelect(args) ==
    IF Truthy(args.prefix) THEN [mode |-> "prefix", pattern |-> args.prefix]
    ELSE IF Truthy(args.suffix) THEN [mode |-> "suffix", pattern |-> args.suffix]
    ELSE IF Truthy(args.contains)
        THEN [mode |-> "contains", pattern |-> args.contains]
    ELSE [mode |-> "regex", pattern |-> args.regex]

\* The destination types given on the command line: the default, and one
\* the constructor refuses.
CliDestTypes == {<<"lxmf", ".", "delivery">>, <<"lxmf">>}

\* main() up to the search: the flags are parsed, the mode and pattern
\* chosen, the generator built; on ValueError main returns 1 (exit -1: main
\* goes on to the search)
CliMain ==
    /\ call.fn = "none"
    /\ opc = "idle"
    /\ rb = "off"
    /\ start_time = 0
    /\ ~created
    /\ \E flag \in Modes, s \in StrInputs \cup RegexInputs, d \in CliDestTypes :
          LET sel == MainSelect(ParseArgs(flag, s))
              out == ConstructorOutcome(sel.mode, sel.pattern, d) IN
          /\ call' = [NoCall EXCEPT !.fn = "main", !.flag = flag, !.pattern = s,
                                    !.mode = sel.mode, !.dest_type = d,
                                    !.num_workers = 1,
                                    !.raised = out.raised, !.value = out.value,
                                    !.exit = IF out.raised # "" THEN 1 ELSE -1]
          /\ IF out.raised # ""
               THEN UNCHANGED <<match_pattern, num_workers>>
               ELSE /\ match_pattern' = [mode |-> sel.mode, pattern |-> out.value]
                    /\ num_workers' = WorkerCount(1, 0)
    /\ start_raised' = FALSE
    /\ stats' = NoStats
    /\ UNCHANGED <<watch, rb, fields, lock, buffer, wlocals, opc, jn, ret,
                   history>>

\* A caller that calls one of the pure functions, which keep nothing from
\* one call to the next, or builds a generator; and starts the generator it
\* holds, whose workers then compile the pattern.
InitCalls ==
    /\ InitFields
    /\ watch = "calls"
    /\ match_pattern.mode = "prefix"
    /\ num_workers = 1

NextCalls ==
    \/ Validate
    \/ Estimate
    \/ Compile
    \/ Match
    \/ Generate
    \/ HashBegin
    \/ HashRound
    \/ HashReturn
    \/ Construct
    \/ CliMain
    \/ Start
    \/ \E w \in WorkerIds : WorkerCompile(w)

SpecCalls == InitCalls /\ [][NextCalls]_vars

\* ------------------------------------------------------------- cli.main
\* main() builds the generator for --regex s and --workers n
CliRegex ==
    /\ call.fn = "none"
    /\ opc = "idle"
    /\ rb = "off"
    /\ start_time = 0
    /\ ~created
    /\ \E s \in RegexInputs, n \in WorkerIds :
          LET d == <<"lxmf", ".", "delivery">>
              out == ConstructorOutcome("regex", s, d) IN
          /\ out.raised = ""
          /\ call' = [NoCall EXCEPT !.fn = "VanityGenerator", !.mode = "regex",
                                    !.pattern = s, !.dest_type = d,
                                    !.num_workers = n, !.value = out.value]
          /\ match_pattern' = [mode |-> "regex", pattern |-> out.value]
          /\ num_workers' = WorkerCount(n, 0)
    /\ start_raised' = FALSE
    /\ stats' = NoStats
    /\ UNCHANGED <<watch, rb, fields, lock, buffer, wlocals, opc, jn, ret,
                   history>>

\* The command line run on any regex, one that compiles or one that does
\* not: the workers compile the pattern, and those that cannot die of it.
NextCli ==
    \/ CliRegex
    \/ CliRun
    \/ RbStep
    \/ Interrupt
    \/ Orchestrator
    \/ \E w \in WorkerIds : Worker(w)
    \/ \E w \in WorkerIds : WorkerCompile(w)

\* A worker process that is to die of its exception does so.
FairnessCli ==
    /\ Fairness
    /\ \A w \in WorkerIds : WF_vars(WorkerCompile(w))

SpecCli == InitCalls /\ [][NextCli]_vars /\ FairnessCli

\* ------------------------------------------------------------------ C1
\* What start() has to leave alone when it raises.
StartKeeps ==
    UNCHANGED <<workers, created, result_queue, stop_event, counter, start_time,
                results, is_running, wpc, buffer, lock>>

\* C1: start() called while is_running is true raises, spawns no worker and
\* replaces or resets neither the result queue, the stop event, the counter,
\* the start time nor the collected results of the current run.
C1_StartWhileRunningRaises ==
    [][(is_running /\ Start) => (start_raised' /\ StartKeeps)]_vars

\* start() has just raised in a run with a live worker and a collected result.
C1_Witness ==
    /\ start_raised
    /\ is_running
    /\ results # <<>>
    /\ \E w \in WorkerIds : Running(w)

\* ------------------------------------------------------------------ C2
\* A step taken while a stop() call is under way, its entry included.
StopStep ==
    \/ opc = "idle" /\ opc' = "stop_join"
    \/ opc \in {"stop_join", "stop_drain"}

\* C2: a second stop() with no start() in between terminates no process,
\* collects nothing and returns what the first returned; a stop() on an
\* orchestrator never started, or before any worker matched, returns an empty
\* list.
C2_StopIdempotent ==
    [][/\ (stopped /\ StopStep) =>
             /\ wpc' = wpc
             /\ results' = results
             /\ result_queue' = result_queue
             /\ (opc' = "idle" => ret' = ret)
       /\ (StopStep /\ pushed = {}) =>
             /\ (opc = "stop_drain" => opc' = "idle")
             /\ (opc' = "idle" => ret' = <<>>)]_vars

\* A second stop() is at its final drain; the first returned a result and
\* had terminated a worker.
C2_Witness ==
    /\ stopped
    /\ opc = "stop_drain"
    /\ ret # <<>>
    /\ \E w \in WorkerIds : wpc[w] = "dead"

\* A stop() on an orchestrator that was never started is at its final drain.
C2_WitnessNeverStarted == ~created /\ opc = "stop_drain"

\* ------------------------------------------------------------------ C3
\* The places of seq that hold the result found by worker w with digest h.
Places(seq, w, h) ==
    {k \in DOMAIN seq : seq[k].private_key = w /\ seq[k].dest_hash_hex = h}

\* C3: in the list a stop() returned, every item pushed by a worker that
\* exited on its own stands exactly once, and nothing stands there that no
\* worker pushed or stands there twice.
C3_NoResultLostOrDuplicated ==
    stopped =>
        /\ \A item \in pushed :
              wpc[item.prv] = "done" =>
                  Cardinality(Places(ret, item.prv, item.hex)) = 1
        /\ \A k \in DOMAIN ret :
              /\ [prv |-> ret[k].private_key, hex |-> ret[k].dest_hash_hex] \in pushed
              /\ Places(ret, ret[k].private_key, ret[k].dest_hash_hex) = {k}

\* stop() has returned two results of two workers that exited on their own,
\* the first collected by a poll() before the second was counted.
C3_Witness ==
    /\ stopped
    /\ Len(ret) = 2
    /\ wpc[1] = "done" /\ wpc[2] = "done"
    /\ ret[1].total_checked < ret[2].total_checked

\* ------------------------------------------------------------------ C4
\* The text p stands in h from position i on.
OccursAt(p, h, i) ==
    /\ i >= 1
    /\ i + Len(p) - 1 <= Len(h)
    /\ \A j \in 1..Len(p) : h[i + j - 1] = p[j]

\* The digest h is one the configured pattern asks for.
Satisfies(pat, h) ==
    CASE pat.mode = "prefix" -> OccursAt(pat.pattern, h, 1)
      [] pat.mode = "suffix" -> OccursAt(pat.pattern, h, Len(h) - Len(pat.pattern) + 1)
      [] pat.mode = "contains" -> \E i \in 1..Len(h) : OccursAt(pat.pattern, h, i)
      [] OTHER -> FALSE

\* C4: every result collected by poll() or stop(), and every item pushed to
\* the queue, has a dest_hash_hex that satisfies the configured pattern.
C4_ResultsMatchPattern ==
    /\ \A k \in DOMAIN results : Satisfies(match_pattern, results[k].dest_hash_hex)
    /\ \A k \in DOMAIN ret : Satisfies(match_pattern, ret[k].dest_hash_hex)
    /\ \A k \in DOMAIN result_queue : Satisfies(match_pattern, result_queue[k].hex)
    /\ \A w \in WorkerIds : \A k \in DOMAIN buffer[w] :
          Satisfies(match_pattern, buffer[w][k].hex)
    /\ \A item \in pushed : Satisfies(match_pattern, item.hex)

\* A worker that generated a candidate it did not push has a result collected.
C4_Witness ==
    \E k \in DOMAIN results :
        /\ made[results[k].private_key] >= 2
        /\ Satisfies(match_pattern, results[k].dest_hash_hex)

\* ------------------------------------------------------------------ C5
\* run_blocking() has returned a list with a result, after a poll() ended
\* the run and with every worker exited.
RunBlockingReturned ==
    /\ rb = "off"
    /\ stopped
    /\ by_poll
    /\ ~is_running
    /\ \A w \in WorkerIds : ~Running(w)
    /\ Len(ret) >= 1

\* C5: in run_blocking(), with the workers and the poll loop scheduled
\* fairly, once a worker has found a match every worker exits, a poll() sets
\* is_running to false and run_blocking() returns a list with at least one
\* result (unless the caller interrupts it from the keyboard).
C5_RunBlockingReturnsMatch ==
    (rb = "loop" /\ pushed # {}) ~> (rb = "interrupted" \/ RunBlockingReturned)

\* run_blocking() has returned a result found by a worker while the other
\* worker exited without a match.
C5_Witness ==
    /\ RunBlockingReturned
    /\ num_workers = 2
    /\ Cardinality(pushed) = 1

\* ------------------------------------------------------------------ C6
\* C6: stop() always returns: its final drain is never left waiting for a
\* lock that nobody will release; and once it has returned no worker is
\* alive, is_running is false and the tracked worker list is empty.
C6_StopAlwaysReturns ==
    /\ (opc = "stop_drain" /\ created /\ result_queue # <<>> /\ lock # 0) =>
           Running(lock)
    /\ opc = "stop_drain" => \A w \in WorkerIds : ~Running(w)
    /\ stopped =>
           /\ ~is_running
           /\ workers = <<>>
           /\ \A w \in WorkerIds : ~Running(w)

\* ------------------------------------------------------------------ C7
\* C7: the step of poll() that tests for the end of the run sets is_running
\* to false exactly when the stop flag is set and no worker is alive, and no
\* other step of poll() changes is_running.
C7_PollEndsRunOnlyWhenDone ==
    [][/\ (is_running /\ opc = "poll_stats" /\ opc' = "idle") =>
             (is_running' = ~(stop_event /\ \A w \in WorkerIds : ~Running(w)))
       /\ ((opc = "idle" /\ opc' = "poll_drain") \/ opc = "poll_drain") =>
             is_running' = is_running]_vars

\* A poll() has just returned and left is_running true with the flag set,
\* one worker exited and the other still alive.
C7_Witness ==
    /\ stats.total_checked >= 0
    /\ is_running
    /\ stop_event
    /\ \E w \in WorkerIds : wpc[w] = "done"
    /\ \E w \in WorkerIds : Running(w)

\* ------------------------------------------------------------------ C8
\* C8: after the stop flag is set a worker makes at most batch_size further
\* attempts, and the counter grows by at most num_workers * batch_size.
C8_CancellationWithinOneBatch ==
    /\ \A w \in WorkerIds : late[w] <= BatchSize
    /\ counter_at_set >= 0 =>
           counter - counter_at_set <= num_workers * BatchSize

\* A worker has made a full batch of attempts after the flag was set, and
\* the counter has grown by a batch since.
C8_Witness ==
    /\ \E w \in WorkerIds : late[w] = BatchSize
    /\ counter_at_set >= 0
    /\ counter - counter_at_set = BatchSize

\* ------------------------------------------------------------------ C9
\* C9: within one run no step lowers the counter, and a poll() of a running
\* orchestrator returns a total_checked not below that of the poll() before
\* it in the run.
C9_CounterMonotonic ==
    [][/\ start_time' = start_time => counter' >= counter
       /\ (opc = "poll_stats" /\ opc' = "idle" /\ last_total >= 0) =>
             stats'.total_checked >= last_total]_vars

\* A poll() is about to return a total above the one the poll() before it
\* returned, which was above zero.
C9_Witness ==
    /\ opc = "poll_stats"
    /\ last_total >= 1
    /\ counter > last_total

\* ----------------------------------------------------------------- C10
\* C10: the counter, when stop() has returned, is at least the
\* total_checked of every result in the returned list.
C10_TotalAtStopCoversResults ==
    stopped => \A k \in DOMAIN ret : ret[k].total_checked <= counter

\* stop() has returned a result recorded before the counter reached its
\* final value.
C10_Witness ==
    /\ stopped
    /\ ret # <<>>
    /\ ret[1].total_checked < counter

\* ----------------------------------------------------------------- C11
\* C11: the total_checked of every collected result is at least the number
\* of attempts its finder had made when it pushed it, the matching attempt
\* included (a finder makes no attempt after its match).
C11_TotalCoversFinderAttempts ==
    \A k \in DOMAIN results :
        /\ results[k].total_checked >= made[results[k].private_key]
        /\ results[k].total_checked >= 1

\* ----------------------------------------------------------------- C16
\* C16: once a run has ended, by a stop() that returned or by a poll() that
\* saw it complete, start() raises instead of beginning a new run.
C16_NoRestartAfterEnd ==
    [][(created /\ (stopped \/ by_poll) /\ ~is_running /\ Start) =>
           start_raised']_vars

\* ----------------------------------------------------------------- C18
\* seq begins with pre.
IsPrefix(pre, seq) ==
    Len(pre) <= Len(seq) /\ SubSeq(seq, 1, Len(pre)) = pre

\* C18: within one run the collected results are only added to, and a stop()
\* that returns hands back all of them, however many workers matched.
C18_StopReturnsAllCollected ==
    [][/\ start_time' = start_time => IsPrefix(results, results')
       /\ (opc = "stop_drain" /\ opc' = "idle") => ret' = results']_vars

\* In the first run both workers matched, the second before it saw the flag
\* the first had set, and stop() returned the two results.
C18_Witness ==
    /\ stopped
    /\ start_time = 1
    /\ num_workers = 2
    /\ Len(ret) = 2
    /\ ret[1].private_key # ret[2].private_key
    /\ Cardinality(pushed) = 2

\* ----------------------------------------------------------------- C17
\* stop()'s final drain waits for the counter's lock, which a worker that
\* was terminated while holding it never releases (see C6).
StopHung ==
    /\ opc = "stop_drain"
    /\ result_queue # <<>>
    /\ lock # 0
    /\ ~Running(lock)

AnyCaseHex == HexChars \cup {"A", "B", "C", "D", "E", "F"}

\* The step is a call of the constructor.
ConstructStep == call.fn = "none" /\ call'.fn = "VanityGenerator"

\* C13: the constructor raises a validation error exactly when the mode is
\* prefix, suffix or contains and the pattern fails hex validation, or the
\* destination type is neither of the two known names nor holds a '.'; and
\* whether it raises or not, no worker, queue, event or counter exists after
\* it.
C13_ConstructorValidates ==
    [][ConstructStep =>
          LET c == call' IN
          /\ (c.raised = "ValueError") <=>
                \/ /\ c.mode \in {"prefix", "suffix", "contains"}
                   /\ ValidateHexPattern(c.pattern).raised # ""
                \/ /\ c.dest_type \notin {<<"lxmf", ".", "delivery">>,
                                          <<"nomadnetwork", ".", "node">>}
                   /\ \A k \in DOMAIN c.dest_type : c.dest_type[k] # "."
          /\ c.raised \in {"", "ValueError"}
          /\ workers' = <<>>
          /\ ~created'
          /\ ~is_running'
          /\ \A w \in WorkerIds : wpc'[w] = "none"]_vars

\* The constructor refused a one-word destination type given with a valid
\* pattern.
C13_Witness ==
    /\ call.fn = "VanityGenerator"
    /\ call.raised = "ValueError"
    /\ call.pattern = <<"a", "F">>
    /\ call.dest_type = <<"lxmf">>
    /\ ~created

\* ----------------------------------------------------------------- C14
\* C14: validate_hex_pattern raises for every string that holds a character
\* outside 0-9, a-f, A-F, whitespace included, wherever it stands.
C14_NonHexAlwaysRaises ==
    (/\ call.fn = "validate_hex_pattern"
     /\ \E k \in DOMAIN call.pattern : call.pattern[k] \notin AnyCaseHex)
        => call.raised = "ValueError"

\* ----------------------------------------------------------------- C15
\* C15: for a string of hex digits in either case, validate_hex_pattern
\* returns the string in lower case when it has 1 to 32 characters and
\* raises when it is empty or longer.
C15_ValidateLowercasesHex ==
    (/\ call.fn = "validate_hex_pattern"
     /\ \A k \in DOMAIN call.pattern : call.pattern[k] \in AnyCaseHex)
        => IF Len(call.pattern) >= 1 /\ Len(call.pattern) <= 32
             THEN /\ call.raised = ""
                  /\ call.value = Lower(call.pattern)
                  /\ \A k \in DOMAIN call.value : call.value[k] \in HexChars
             ELSE call.raised = "ValueError"

\* The validator was given 32 hex digits, upper case among them, and
\* returned them in lower case.
C15_Witness ==
    /\ call.fn = "validate_hex_pattern"
    /\ Len(call.pattern) = 32
    /\ call.pattern[1] = "9"
    /\ call.pattern[2] = "F"
    /\ call.raised = ""
    /\ call.value[1] = "9"
    /\ call.value[2] = "f"

\* ----------------------------------------------------------------- C19
\* The step is a start() that does not raise.
StartStep == ~is_running /\ is_running'

\* C19: the start() of a generator just built spawns exactly W workers,
\* W being the num_workers argument when positive and otherwise
\* max(1, cpu_count - 1) with cpu_count 2 when unknown; W is at least 1.
C19_StartSpawnsW ==
    [][(StartStep /\ call.fn = "VanityGenerator" /\ call.raised = "") =>
          LET cpus == IF call.cpu_count = 0 THEN 2 ELSE call.cpu_count
              W == IF call.num_workers > 0 THEN call.num_workers
                   ELSE IF cpus - 1 >= 1 THEN cpus - 1 ELSE 1 IN
          /\ W >= 1
          /\ Len(workers') = Len(workers) + W
          /\ Cardinality({w \in WorkerIds : wpc'[w] = "check"}) = W
          /\ \A k \in (Len(workers) + 1)..Len(workers') :
                /\ workers'[k][1] = start_time'
                /\ wpc'[workers'[k][2]] = "check"]_vars

\* A generator built with no worker count on a machine of three processors
\* was started and has two workers.
C19_Witness ==
    /\ call.fn = "VanityGenerator"
    /\ call.raised = ""
    /\ call.num_workers = 0
    /\ call.cpu_count = 3
    /\ is_running
    /\ Len(workers) = 2
    /\ wpc[1] = "check" /\ wpc[2] = "check"

\* ----------------------------------------------------------------- C20
\* The number whose binary digits are bits (for numbers TLC can hold).
RECURSIVE BitsValue(_)
BitsValue(bits) ==
    IF bits = <<>> THEN 0
    ELSE 2 * BitsValue(SubSeq(bits, 1, Len(bits) - 1)) + bits[Len(bits)]

\* C20: for a prefix or suffix pattern of n characters, n from 1 to 32,
\* estimate_difficulty reports expected_attempts = 16^n, the number written
\* in binary as a one and 4n zeros; 65536 for 'dead'.
C20_PrefixSuffixEstimate ==
    (/\ call.fn = "estimate_difficulty"
     /\ call.mode \in {"prefix", "suffix"}
     /\ Len(call.pattern) >= 1
     /\ Len(call.pattern) <= 32)
        => /\ call.known
           /\ call.expected_attempts =
                  <<1>> \o [k \in 1..(4 * Len(call.pattern)) |-> 0]
           /\ Len(call.pattern) <= 7 =>
                 BitsValue(call.expected_attempts) = 16 ^ Len(call.pattern)
           /\ call.pattern = <<"d", "e", "a", "d">> =>
                 BitsValue(call.expected_attempts) = 65536

\* The estimator was given the prefix 'dead' and reported 65536.
C20_Witness ==
    /\ call.fn = "estimate_difficulty"
    /\ call.mode = "prefix"
    /\ call.pattern = <<"d", "e", "a", "d">>
    /\ BitsValue(call.expected_attempts) = 65536

\* ----------------------------------------------------------------- C12
\* C12: a regex pattern that does not compile makes the constructor raise a
\* validation error, and no worker ever dies of a compile error.
C12_BadRegexRejectedAtConstruction ==
    [][/\ (ConstructStep /\ call'.mode = "regex"
                         /\ ~RegexCompiles(call'.pattern)) =>
             call'.raised = "ValueError"
       /\ \A w \in WorkerIds : wpc'[w] # "crashed"]_vars

\* A generator built with a regex that does not compile was started and its
\* worker died of the compile error.
C12_WorkerCrashed ==
    /\ call.fn = "VanityGenerator"
    /\ call.mode = "regex"
    /\ call.raised = ""
    /\ is_running
    /\ \E w \in WorkerIds : wpc[w] = "crashed"

\* ----------------------------------------------------------------- C21
\* The sequence backwards.
Reverse(seq) == [i \in 1..Len(seq) |-> seq[Len(seq) + 1 - i]]

\* low * p + carry for small integers p and carry, the digits of low and of
\* the result standing with the least significant first.
RECURSIVE MulAddLow(_, _, _)
MulAddLow(low, p, carry) ==
    IF low = <<>> /\ carry = 0 THEN <<>>
    ELSE LET cur == (IF low = <<>> THEN 0 ELSE Head(low) * p) + carry IN
         <<cur % 2>> \o
             MulAddLow(IF low = <<>> THEN <<>> ELSE Tail(low), p, cur \div 2)

\* bits * p + carry
MulAdd(bits, p, carry) == Reverse(MulAddLow(Reverse(bits), p, carry))

\* q is the quotient of 2 ** k by p with what is below the unit dropped:
\* q * p + r = 2 ** k for a remainder r below p.
IsTruncatedQuotient(q, k, p) ==
    \E r \in 0..(p - 1) : Normal(MulAdd(q, p, r)) = <<1>> \o [i \in 1..k |-> 0]

\* C21: for a contains pattern of n characters, n from 1 to 32,
\* estimate_difficulty reports expected_attempts = 16^n divided by
\* max(1, 32 - n + 1), the digits below the unit dropped; 8 for 'be'.
C21_ContainsEstimate ==
    (/\ call.fn = "estimate_difficulty"
     /\ call.mode = "contains"
     /\ Len(call.pattern) >= 1
     /\ Len(call.pattern) <= 32)
        => LET n == Len(call.pattern)
               positions == IF 32 - n + 1 >= 1 THEN 32 - n + 1 ELSE 1 IN
           /\ call.known
           /\ IsTruncatedQuotient(call.expected_attempts, 4 * n, positions)
           /\ call.pattern = <<"b", "e">> =>
                 BitsValue(call.expected_attempts) = 8

\* ----------------------------------------------------------------- C22
\* C22: whatever calls of matches() and compilations of the same pattern
\* went before, matches(x) on a compiled prefix, suffix or contains pattern
\* answers true exactly when x starts with, ends with or holds the pattern.
C22_MatchesIsSemanticPredicate ==
    call.fn = "matches" =>
        (call.matched <=>
            Satisfies([mode |-> call.mode, pattern |-> call.pattern],
                      call.hex_addr))

\* A suffix pattern compiled once answered true for a digest of 32
\* characters that ends with it and does not start with it.
C22_Witness ==
    /\ call.fn = "matches"
    /\ call.mode = "suffix"
    /\ call.pattern = <<"0">>
    /\ Len(call.hex_addr) = 32
    /\ call.hex_addr[1] = "a"
    /\ call.matched

\* ----------------------------------------------------------------- C23
\* C23: the identity hash generate_and_hash returns is
\* identity_hash_from_pub of the public keys of the private keys it returns,
\* its destination hash is the hex of dest_hash_from_identity_hash of the
\* name hash and that identity hash, and the destination hash has 16 bytes,
\* 32 hex characters.
C23_GeneratedHashesAgree ==
    call.fn = "generate_and_hash" =>
        LET x_pub == PublicBytes(call.private_key[1].of)
            e_pub == PublicBytes(call.private_key[2].of)
            dest_hash == DestHashFromIdentityHash(call.name_hash,
                                                  call.identity_hash) IN
        /\ call.identity_hash = IdentityHashFromPub(x_pub, e_pub)
        /\ call.dest_hex = HexOf(dest_hash)
        /\ ByteLen(call.identity_hash) = 16
        /\ ByteLen(dest_hash) = 16
        /\ ByteLen(call.dest_hex) = 32

\* generate_and_hash was called with the name hash of a custom destination
\* type and drew two different keys.
C23_Witness ==
    /\ call.fn = "generate_and_hash"
    /\ call.name_hash = ComputeNameHash(<<"x", ".", "y">>)
    /\ call.private_key[1].of.of # call.private_key[2].of.of
    /\ ByteLen(call.private_key) = 64

\* ----------------------------------------------------------------- C24
\* C24: compute_name_hash of 'lxmf.delivery' and of 'nomadnetwork.node' is
\* the name hash the table holds for the name, 10 bytes that read
\* 6ec60bc318e2c0f0d908 and 213e6311bcec54ab4fde in hex.
C24_TableEqualsComputedNameHash ==
    (call.fn = "compute_name_hash" /\ call.dest_type \in KnownDestTypes) =>
        /\ call.name_hash = DEST_NAME_HASHES(call.dest_type)
        /\ Len(call.name_hash) = 10
        /\ BytesHex(call.name_hash) =
               IF call.dest_type = <<"lxmf", ".", "delivery">>
                 THEN <<"6", "e", "c", "6", "0", "b", "c", "3", "1", "8",
                        "e", "2", "c", "0", "f", "0", "d", "9", "0", "8">>
                 ELSE <<"2", "1", "3", "e", "6", "3", "1", "1", "b", "c",
                        "e", "c", "5", "4", "a", "b", "4", "f", "d", "e">>

\* compute_name_hash('nomadnetwork.node') has returned.
C24_Witness ==
    /\ call.fn = "compute_name_hash"
    /\ call.dest_type = <<"nomadnetwork", ".", "node">>
    /\ call.sha.t = 64
    /\ Len(call.sha.w) = 64

\* ----------------------------------------------------------------- C25
\* Every worker of the run has left search_worker by itself.
AllExitedOnTheirOwn ==
    /\ \E w \in WorkerIds : wpc[w] = "done"
    /\ \A w \in WorkerIds : wpc[w] \in {"none", "done"}

\* C25: the shared counter never exceeds the number of candidates the
\* workers of the run have generated so far, and equals it once every
\* worker has exited on its own.
C25_CounterCountsEachCandidateOnce ==
    /\ counter <= TotalMade
    /\ AllExitedOnTheirOwn => counter = TotalMade

\* Two workers that both generated candidates and flushed more than one
\* batch in all have exited on their own.
C25_Witness ==
    /\ AllExitedOnTheirOwn
    /\ made[1] > 0 /\ made[2] > 0
    /\ TotalMade > BatchSize
    /\ counter = TotalMade

\* ----------------------------------------------------------------- C26
\* C26: when a poll() sets is_running to false, every item a worker of the
\* run has pushed stands in the collected results.
C26_CompletionHasEveryResult ==
    [][(opc = "poll_stats" /\ is_running /\ ~is_running') =>
          \A item \in pushed : Places(results', item.prv, item.hex) # {}]_vars

\* ----------------------------------------------------------------- C28
\* C28: the is_running of the stats a poll() returns equals the
\* orchestrator's is_running at the return of that poll().
C28_StatsIsRunningIsCurrent ==
    [][(opc' = "idle" /\ stats'.total_checked >= 0) =>
          stats'.is_running = is_running']_vars

\* ----------------------------------------------------------------- C29
\* C29: a poll() on an orchestrator that is not running returns stats with
\* is_running false and every number zero, and changes nothing: the queue,
\* the collected results, the flag, the counter and is_running stay, and
\* on_result is not called.
C29_PollWhenNotRunningIsNoOp ==
    [][(PollBegin /\ ~is_running) =>
          /\ stats' = [total_checked |-> 0, elapsed |-> 0, rate |-> 0,
                       is_running |-> FALSE, results_found |-> 0]
          /\ opc' = "idle"
          /\ ~is_running'
          /\ UNCHANGED <<result_queue, results, counter, stop_event, workers,
                         created, start_time, buffer, lock, wlocals, ret,
                         history, config, rb, jn>>]_vars

\* A poll() has just returned at once on a run that a poll() ended, with a
\* result collected and another one left in the queue.
C29_Witness ==
    /\ ~is_running
    /\ by_poll
    /\ opc = "idle"
    /\ stats.total_checked = 0
    /\ ~stats.is_running
    /\ results # <<>>
    /\ result_queue # <<>>

\* ----------------------------------------------------------------- C30
\* C30: on_result has been called exactly once with every collected result,
\* whether poll() or the final drain of stop() collected it.
C30_OnResultOncePerResult ==
    \A k \in DOMAIN results :
        Cardinality({j \in DOMAIN notified : notified[j] = results[k]}) = 1

\* ----------------------------------------------------------------- C27
\* Every worker process of the run has exited.
AllWorkersExited ==
    /\ workers # <<>>
    /\ \A k \in 1..Len(workers) : ~IsAlive(workers[k])

\* C27: once every worker of the run run_blocking() started has exited, be
\* it of an exception before the loop, the polls of run_blocking() come to
\* one after which the orchestrator is not running.
C27_ExitedWorkersEndRun ==
    (rb = "loop" /\ is_running /\ AllWorkersExited) ~> ~is_running

\* ----------------------------------------------------------------- C31
\* C31: on_complete is called at most once per start(), and only by the step
\* of poll() that changes is_running from true to false: no step of stop()
\* and no poll() on a run that has ended calls it.
C31_OnCompleteOnceAtCompletion ==
    /\ [](completions <= 1)
    /\ [][completions' # completions =>
             \/ StartStep /\ completions' = 0
             \/ /\ opc = "poll_stats"
                /\ is_running /\ ~is_running'
                /\ completions' = completions + 1]_vars

\* on_complete was called once, a stop() has returned since, and a poll() on
\* the ended run has just returned.
C31_Witness ==
    /\ completions = 1
    /\ stopped
    /\ ~is_running
    /\ stats.total_checked = 0
    /\ ~stats.is_running

\* ----------------------------------------------------------------- C32
\* The worker w has put a result on the queue in this run.
HasPushed(w) == \E item \in pushed : item.prv = w

\* C32: a worker pushes at most one result and generates no candidate after
\* it, and the collected results of a run are never more than the workers
\* its start() spawned.
C32_OneResultPerWorker ==
    /\ [](/\ \A w \in WorkerIds :
               Cardinality({item \in pushed : item.prv = w}) <= 1
          /\ Cardinality(pushed) <= num_workers
          /\ Len(results) <= num_workers)
    /\ [][\A w \in WorkerIds :
             (HasPushed(w) /\ ~StartStep) =>
                 /\ made'[w] = made[w]
                 /\ wpc'[w] \notin {"check", "gen", "acq_b", "wr_b"}]_vars

\* Two workers were spawned, each pushed a result and exited, and both
\* results are collected.
C32_Witness ==
    /\ num_workers = 2
    /\ Len(results) = 2
    /\ HasPushed(1) /\ HasPushed(2)
    /\ wpc[1] = "done" /\ wpc[2] = "done"

\* ----------------------------------------------------------------- C33
\* C33: main() searches in the mode of the pattern flag given, with the
\* flag's value (validated, for the three hex modes) as the pattern,
\* whatever the value, and returns 1 with no worker started when the value
\* fails validation.
C33_CliSearchesGivenFlag ==
    [][(call.fn = "none" /\ call'.fn = "main") =>
          LET flag == call'.flag
              v == IF flag = "regex" THEN [raised |-> "", value |-> call'.pattern]
                   ELSE ValidateHexPattern(call'.pattern) IN
          IF v.raised # ""
            THEN /\ call'.exit = 1
                 /\ UNCHANGED <<workers, wpc, is_running, created>>
            ELSE \/ DestTypeRaises(call'.dest_type)
                 \/ /\ call'.exit = -1
                    /\ match_pattern' = [mode |-> flag, pattern |-> v.value]]_vars

=============================================================================
